---- MODULE Spec2Model ----
(***************************************************************************)
(* A model of stream-producer.py: one read thread decodes the input and    *)
(* puts records on the bounded read_queue, threads_per_print write threads *)
(* take them off, serialise them and hand them to the sink.  Every thread  *)
(* runs ReadEvaluatePrintLoopThread.run with its own read/evaluate/print   *)
(* mixins; config is the one dictionary all threads share, the two         *)
(* counters included.  The monitor thread, started last, polls the         *)
(* workers and reports the counters.                                       *)
(***************************************************************************)
EXTENDS Integers, Sequences, FiniteSets, TLC

(* Bounds of the model. *)
MaxRecords == 2
MaxThreads == 2
MaxQueue == 2

(* Lengths, in characters, a serialised record can have, and the limits    *)
(* tried against them: json.dumps({"RECORD_ID": "1"}) has 18 characters.   *)
ShortLen == 18
LongLen == 60
Lengths == {ShortLen, LongLen}
SizeLimits == {0, 50}

VARIABLES
    config,         \* the configuration dictionary, counters included
    read_thread,    \* class of the read thread: "FileJson" or "FileCsv"
    write_thread,   \* class of the write threads: "Stdout", "Sqs", "Kafka", "Rabbitmq"
    input_file,     \* the lines (FileJson) or rows (FileCsv) of the input
    main,           \* pipeline_read_write: number of threads started so far
    reader,         \* the read thread
    writer,         \* the write threads, by index
    read_queue,     \* multiprocessing.Queue(read_queue_maxsize)
    sent,           \* per write thread, the message bodies handed to the sink
    monitor,        \* the monitor thread
    trace           \* history: what each step of the run did

vars == <<config, read_thread, write_thread, input_file, main, reader, writer,
          read_queue, sent, monitor, trace>>

Threads == 1..MaxThreads

(***************************************************************************)
(* Python values.  A message is a str or a dict; the sentinel is a str no  *)
(* record can equal.                                                       *)
(***************************************************************************)
QUEUE_SENTINEL == [type |-> "str"]

None == [type |-> "None"]

(* The keys EvaluateDictToJsonMixin.evaluate looks for. *)
DefaultKeys == {"DATA_SOURCE", "ENTITY_TYPE"}

(* A line of a JSON file: len is len(json.dumps(line)), the length of the  *)
(* line quoted as a JSON string; dictlen is the length of json.dumps of    *)
(* the dictionary the line parses to, keys those of DefaultKeys it has.    *)
JsonLine(i, n, d) ==
    [type |-> "str", id |-> i, text |-> "object", len |-> n, dictlen |-> d, keys |-> {}]

(* A line that line.strip() leaves empty: "\n", four characters as a JSON  *)
(* string.                                                                 *)
BlankLine(i) ==
    [type |-> "str", id |-> i, text |-> "blank", len |-> 4, dictlen |-> 0, keys |-> {}]

(* A line json.loads raises JSONDecodeError on. *)
BadLine(i, n) ==
    [type |-> "str", id |-> i, text |-> "garbage", len |-> n, dictlen |-> 0, keys |-> {}]

(* A row of a CSV file, a dictionary: len is len(json.dumps(row)).         *)
CsvRow(i, n) == [type |-> "dict", id |-> i, len |-> n, keys |-> {}]

(* The same line or row with the keys ks of DefaultKeys present. *)
WithKeys(message, ks) == [message EXCEPT !.keys = ks]

(* One character of a message body. *)
Chr(c) == [type |-> "chr", c |-> c, len |-> 1]

(* the ids of a sequence of records *)
Ids(seq) == [i \in DOMAIN seq |-> seq[i].id]

(* the records of a message body or a buffer, without the punctuation *)
Records(body) == SelectSeq(body, LAMBDA t : t.type = "str")

(* len(json.dumps(message)) *)
json_dumps_len(message) == message.len

(***************************************************************************)
(* multiprocessing.Queue(maxsize): put blocks while maxsize items are in   *)
(* the queue; a maxsize of zero or less means no limit.                    *)
(***************************************************************************)
(* Mutant: the queue takes one item more than maxsize. *)
QueueFull_OffByOne(queue, maxsize) == maxsize > 0 /\ Len(queue) > maxsize

QueueFull(queue, maxsize) == maxsize > 0 /\ Len(queue) >= maxsize

(***************************************************************************)
(* Evaluate mixins.                                                        *)
(***************************************************************************)
EvaluateJsonToDict(message) ==
    [type |-> "dict", id |-> message.id, len |-> message.dictlen, keys |-> message.keys]

EvaluateNullObject(message) == message

(* A value of default_data_source or default_entity_type: a str whose      *)
(* json.dumps, quotes included, has n characters.                          *)
StrValue(n) == [type |-> "str", len |-> n]

(* if value: None and the empty string are not used *)
Truthy(value) == value.type = "str" /\ value.len > 2

(* EvaluateDictToJsonMixin.evaluate: a default that is set is added under  *)
(* its key when the record has no such key.                                *)
Defaults ==
    (IF Truthy(config.default_data_source) THEN {"DATA_SOURCE"} ELSE {})
    \cup (IF Truthy(config.default_entity_type) THEN {"ENTITY_TYPE"} ELSE {})

(* len(json.dumps(key)) for either key of DefaultKeys *)
KeyLen == 13

(* len(json.dumps(d)) after d[key] = value, for a dictionary d without the *)
(* key and with json.dumps of length len: ", " when d has an item ("{}",   *)
(* two characters, has none), the key, ": " and the value.                 *)
WithItemLen(len, value) ==
    len + (IF len = 2 THEN 0 ELSE 2) + KeyLen + 2 + json_dumps_len(value)

(* The result is json.dumps of the record, the items added included. *)
EvaluateDictToJson(message) ==
    LET added == Defaults \ message.keys
        len1  == IF "DATA_SOURCE" \in added
                 THEN WithItemLen(message.len, config.default_data_source)
                 ELSE message.len
        len2  == IF "ENTITY_TYPE" \in added
                 THEN WithItemLen(len1, config.default_entity_type)
                 ELSE len1
    IN  [type |-> "str", id |-> message.id, len |-> len2]

ReaderEvaluate(message) ==
    IF read_thread = "FileJson" THEN EvaluateJsonToDict(message)
    ELSE EvaluateNullObject(message)

(***************************************************************************)
(* ReadFileMixin.read / ReadFileCsvMixin.read: the generator, resumed with *)
(* self.counter = counter.  The result is the counter after the step and   *)
(* the value yielded, or None when the generator returns.                  *)
(***************************************************************************)
RECURSIVE ReadFile_read(_)
ReadFile_read(counter) ==
    IF counter >= Len(input_file)
    THEN [counter |-> counter, yield |-> None]
    ELSE LET c == counter + 1 IN
         IF config.record_min # 0 /\ c < config.record_min
         THEN ReadFile_read(c)
         ELSE IF config.record_max # 0 /\ c > config.record_max
         THEN [counter |-> c, yield |-> None]
         ELSE IF input_file[c].type = "str" /\ input_file[c].text = "blank"
         THEN ReadFile_read(c)
         ELSE [counter |-> c, yield |-> input_file[c]]

(***************************************************************************)
(* The initial state: get_configuration has run, no thread is started.     *)
(***************************************************************************)
Inputs(kind, limit) ==
    LET Line(i) == IF kind = "FileJson"
                   THEN IF limit = 0
                        THEN {JsonLine(i, ShortLen, ShortLen), BadLine(i, ShortLen)}
                        ELSE {JsonLine(i, n, d) : n \in Lengths, d \in Lengths}
                                \ {JsonLine(i, LongLen, ShortLen)}
                   ELSE IF limit = 0
                        THEN {CsvRow(i, ShortLen)}
                        ELSE {CsvRow(i, n) : n \in Lengths}
    IN  UNION {{f \in [1..n -> UNION {Line(i) : i \in 1..n}] :
                    \A i \in 1..n : f[i].id = i} : n \in 0..MaxRecords}

writer0 ==
    [pc |-> "unstarted",
     message |-> None,      \* the record self.govern() was called for
     unpolled |-> 0,        \* records printed since kafka_producer.poll(0)
     messages |-> <<>>,     \* self.messages of PrintSqsBatchMixin
     loaded |-> 0,          \* the value config[counter_name] += 1 has read
     num_messages |-> 0,
     message_buffer |-> <<Chr("[")>>]

monitor0 == [pc |-> "unstarted", active_workers |-> 0, step |-> 0]

trace0 ==
    [put |-> <<>>,                          \* ids the read thread put, in order
     got |-> [w \in Threads |-> <<>>],      \* ids each write thread got
     dropped_reader |-> <<>>,               \* ids the read thread logged as too long
     dropped_writer |-> [w \in Threads |-> <<>>],  \* ids each write thread logged as too long
     sentinel_put |-> 0,                    \* sentinels the read thread put
     sentinel_got |-> [w \in Threads |-> 0],
     closed |-> [w \in Threads |-> 0],      \* calls of close() per write thread
     raised |-> [w \in Threads |-> <<>>],   \* ids in the buffer of a sink call that raised
     governed_reader |-> <<>>,              \* ids the read thread's govern() returned for
     governed |-> [w \in Threads |-> <<>>], \* ids each write thread's govern() returned for
     increments |-> 0]                      \* completed output_counter += 1

(* No thread is started, the queue is empty, nothing was sent. *)
InitThreads ==
    /\ main = 0
    /\ reader = [pc |-> "unstarted", counter |-> 0, message |-> None]
    /\ writer = [w \in Threads |-> writer0]
    /\ read_queue = <<>>
    /\ sent = [w \in Threads |-> <<>>]
    /\ monitor = monitor0
    /\ trace = trace0

(* The monitoring period and the two defaults are as get_configuration     *)
(* leaves them when they are not given: 600 seconds, and None.             *)
Init ==
    /\ read_thread \in {"FileJson", "FileCsv"}
    /\ write_thread \in {"Stdout", "Sqs"}
    /\ config \in [read_queue_maxsize : {0, 1, MaxQueue},
                   threads_per_print : 1..MaxThreads,
                   records_per_message : 1..2,
                   record_size_max : SizeLimits,
                   record_min : {0, 2},
                   record_max : {0, 1},
                   monitoring_period_in_seconds : {600},
                   kafka_poll_interval : {100},
                   default_data_source : {None},
                   default_entity_type : {None},
                   input_counter : {0},
                   output_counter : {0}]
    /\ input_file \in Inputs(read_thread, config.record_size_max)
    /\ InitThreads

(***************************************************************************)
(* pipeline_read_write: start the read thread, then the write threads.     *)
(***************************************************************************)
StartReadThread ==
    /\ main = 0
    /\ main' = 1
    /\ reader' = [reader EXCEPT !.pc = "read"]
    /\ UNCHANGED <<monitor, config, read_thread, write_thread, input_file, writer,
                   read_queue, sent, trace>>

StartWriteThread ==
    /\ main >= 1
    /\ main <= config.threads_per_print
    /\ main' = main + 1
    /\ writer' = [writer EXCEPT ![main].pc = "read"]
    /\ UNCHANGED <<monitor, config, read_thread, write_thread, input_file, reader,
                   read_queue, sent, trace>>

(***************************************************************************)
(* The read thread: ReadEvaluatePrintLoopThread.run with ReadFileMixin or  *)
(* ReadFileCsvMixin, an Evaluate mixin and PrintQueueMixin.                *)
(***************************************************************************)
ReaderRead ==
    /\ reader.pc = "read"
    /\ LET r == ReadFile_read(reader.counter)
           message == r.yield
       IN  IF message = None
           THEN /\ reader' = [pc |-> "close", counter |-> r.counter, message |-> None]
                /\ trace' = trace
           ELSE IF config.record_size_max > 0
                   /\ json_dumps_len(message) > config.record_size_max
           THEN \* log_excessive_record calls record.get: a str has none
                IF message.type = "str"
                THEN /\ reader' = [pc |-> "dead", counter |-> r.counter, message |-> None]
                     /\ trace' = trace
                ELSE /\ reader' = [pc |-> "read", counter |-> r.counter, message |-> None]
                     /\ trace' = [trace EXCEPT !.dropped_reader = Append(@, message.id)]
           ELSE IF read_thread = "FileJson" /\ message.text = "garbage"
           THEN \* json.loads raises JSONDecodeError, which nothing catches
                /\ reader' = [pc |-> "dead", counter |-> r.counter, message |-> None]
                /\ trace' = trace
           ELSE /\ reader' = [pc |-> "print", counter |-> r.counter,
                              message |-> ReaderEvaluate(message)]
                /\ trace' = trace
    /\ UNCHANGED <<monitor, config, read_thread, write_thread, input_file, main, writer,
                   read_queue, sent>>

(* Mutant: the record is put at the head of the queue. *)
ReaderPrint_AtHead ==
    /\ reader.pc = "print"
    /\ ~QueueFull(read_queue, config.read_queue_maxsize)
    /\ read_queue' = <<reader.message>> \o read_queue
    /\ reader' = [reader EXCEPT !.pc = "count"]
    /\ trace' = [trace EXCEPT !.put = Append(@, reader.message.id)]
    /\ UNCHANGED <<monitor, config, read_thread, write_thread, input_file, main, writer, sent>>

(* PrintQueueMixin.print: self.read_queue.put(message) *)
ReaderPrint ==
    /\ reader.pc = "print"
    /\ ~QueueFull(read_queue, config.read_queue_maxsize)
    /\ read_queue' = Append(read_queue, reader.message)
    /\ reader' = [reader EXCEPT !.pc = "count"]
    /\ trace' = [trace EXCEPT !.put = Append(@, reader.message.id)]
    /\ UNCHANGED <<monitor, config, read_thread, write_thread, input_file, main, writer, sent>>

(* Mutant: the read thread is given the write threads' counter name. *)
ReaderCount_WrongCounter ==
    /\ reader.pc = "count"
    /\ config' = [config EXCEPT !.output_counter = @ + 1]
    /\ reader' = [reader EXCEPT !.pc = "read", !.message = None]
    /\ UNCHANGED <<monitor, read_thread, write_thread, input_file, main, writer,
                   read_queue, sent, trace>>

(* Mutant: close() is called inside the loop, after every record. *)
ReaderCount_CloseInLoop ==
    /\ reader.pc = "count"
    /\ ~QueueFull(read_queue, config.read_queue_maxsize)
    /\ config' = [config EXCEPT !.input_counter = @ + 1]
    /\ read_queue' = Append(read_queue, QUEUE_SENTINEL)
    /\ reader' = [reader EXCEPT !.pc = "read", !.message = None]
    /\ trace' = [trace EXCEPT !.sentinel_put = @ + 1]
    /\ UNCHANGED <<monitor, read_thread, write_thread, input_file, main, writer, sent>>

ReaderCount ==
    /\ reader.pc = "count"
    /\ config' = [config EXCEPT !.input_counter = @ + 1]
    /\ reader' = [reader EXCEPT !.pc = "read", !.message = None]
    /\ UNCHANGED <<monitor, read_thread, write_thread, input_file, main, writer,
                   read_queue, sent, trace>>

(* Mutant: the read thread ends without putting the sentinel. *)
ReaderClose_NoSentinel ==
    /\ reader.pc = "close"
    /\ reader' = [reader EXCEPT !.pc = "done"]
    /\ UNCHANGED <<monitor, config, read_thread, write_thread, input_file, main, writer,
                   read_queue, sent, trace>>

ReaderClose ==
    /\ reader.pc = "close"
    /\ ~QueueFull(read_queue, config.read_queue_maxsize)
    /\ read_queue' = Append(read_queue, QUEUE_SENTINEL)
    /\ reader' = [reader EXCEPT !.pc = "done"]
    /\ trace' = [trace EXCEPT !.sentinel_put = @ + 1]
    /\ UNCHANGED <<monitor, config, read_thread, write_thread, input_file, main, writer, sent>>

(***************************************************************************)
(* A write thread: ReadEvaluatePrintLoopThread.run with ReadQueueMixin,    *)
(* EvaluateDictToJsonMixin and PrintStdoutMixin or PrintSqsMixin.          *)
(***************************************************************************)
(* PrintStdoutMixin.print: the message is written as one line. *)
PrintStdout(self, message) ==
    [self |-> self, out |-> << <<message>> >>]

(* Mutant: the message is put in front of the records in the buffer. *)
BufferAdd_AtFront(self, message) ==
    <<Chr("["), message>>
        \o (IF self.num_messages > 0 THEN <<Chr(",")>> ELSE <<>>)
        \o Tail(self.message_buffer)

(* PrintSqsMixin.print: the message joins the buffer; a buffer of          *)
(* records_per_message records is closed and sent.                         *)
BufferAdd(self, message) ==
    self.message_buffer
        \o (IF self.num_messages > 0 THEN <<Chr(",")>> ELSE <<>>)
        \o <<message>>

PrintSqs(self, message) ==
    LET buffer == BufferAdd(self, message)
        num    == self.num_messages + 1
    IN  IF num = config.records_per_message
        THEN [self |-> [self EXCEPT !.message_buffer = <<Chr("[")>>,
                                    !.num_messages = 0],
              out  |-> <<Append(buffer, Chr("]"))>>]
        ELSE [self |-> [self EXCEPT !.message_buffer = buffer, !.num_messages = num],
              out  |-> <<>>]

(* PrintKafkaMixin.print and PrintRabbitmqMixin.print, when the publish    *)
(* call returns: the statements on the buffer are those of PrintSqsMixin.  *)
(* What PrintKafkaMixin.print does after them, on the counter the write    *)
(* threads share, is a step of its own, WriterPoll.                        *)
PrintKafka(self, message) == PrintSqs(self, message)

(* PrintKafkaMixin.print, after the try: output_counter =                  *)
(* self.config.get('output_counter'), and kafka_producer.poll(0) is called *)
(* when it is a multiple of kafka_poll_interval.                           *)
KafkaPolls == config.output_counter % config.kafka_poll_interval = 0

PrintRabbitmq(self, message) == PrintSqs(self, message)

(* PrintSqsBatchMixin: the entries of a send_message_batch call for the    *)
(* messages held, each with "Id": str(len(entries)), the number of entries *)
(* before it.                                                              *)
SqsBatchEntries == 10

Entries(messages) ==
    [i \in DOMAIN messages |->
        [type |-> "str", id |-> messages[i].id, len |-> messages[i].len, Id |-> i - 1]]

(* Mutant: the batch is sent when it holds more than ten messages. *)
PrintSqsBatch_OverTen(self, message) ==
    LET messages == Append(self.messages, message)
    IN  IF Len(messages) > SqsBatchEntries
        THEN [self |-> [self EXCEPT !.messages = <<>>], out |-> <<Entries(messages)>>]
        ELSE [self |-> [self EXCEPT !.messages = messages], out |-> <<>>]

(* PrintSqsBatchMixin.print *)
PrintSqsBatch(self, message) ==
    LET messages == Append(self.messages, message)
    IN  IF Len(messages) >= SqsBatchEntries
        THEN [self |-> [self EXCEPT !.messages = <<>>], out |-> <<Entries(messages)>>]
        ELSE [self |-> [self EXCEPT !.messages = messages], out |-> <<>>]

self_print(self, message) ==
    CASE write_thread = "Stdout"   -> PrintStdout(self, message)
      [] write_thread = "SqsBatch" -> PrintSqsBatch(self, message)
      [] write_thread = "Kafka"    -> PrintKafka(self, message)
      [] write_thread = "Rabbitmq" -> PrintRabbitmq(self, message)
      [] OTHER                     -> PrintSqs(self, message)

(* What a publish call can raise: an error PrintKafkaMixin names in an     *)
(* except clause, and any other.                                           *)
Errors == {"BufferError", "Exception"}

(* message_warning(404, err, message): the texts of messages 404 to 407    *)
(* have the fields {0}, {1} and {2}, and str.format is given two values.   *)
MessageWarningRaises(fields, args) == fields > args

(* print, when the publish call raises: the call is made for the           *)
(* records_per_message-th record, after "]" was appended, and the two      *)
(* statements after the call are not reached.                              *)
RaisedIn(self, message) ==
    [self EXCEPT !.message_buffer = Append(BufferAdd(self, message), Chr("]")),
                 !.num_messages = @ + 1]

(* PrintKafkaMixin.print: BufferError and KafkaException reach their       *)
(* except clause, whose message_warning raises IndexError; for any other   *)
(* error the clause except NotImplemented raises TypeError.  Either way    *)
(* an exception leaves print.                                              *)
PrintKafkaRaises(self, message, err) ==
    [self |-> RaisedIn(self, message),
     caught |-> err = "BufferError" /\ ~MessageWarningRaises(3, 2)]

(* PrintRabbitmqMixin.print: except BaseException, and message 411 has the *)
(* two fields it is given                                                  *)
PrintRabbitmqRaises(self, message, err) ==
    [self |-> RaisedIn(self, message), caught |-> ~MessageWarningRaises(2, 2)]

(* PrintSqsMixin.print has no try *)
PrintSqsRaises(self, message, err) ==
    [self |-> RaisedIn(self, message), caught |-> FALSE]

self_print_raises(self, message, err) ==
    CASE write_thread = "Kafka"    -> PrintKafkaRaises(self, message, err)
      [] write_thread = "Rabbitmq" -> PrintRabbitmqRaises(self, message, err)
      [] OTHER                     -> PrintSqsRaises(self, message, err)

(* PrintStdoutMixin.close *)
CloseStdout(self) == [self |-> self, out |-> <<>>]

(* Mutant: close() sends nothing and leaves the buffer as it is. *)
CloseSqs_NoFlush(self) == [self |-> self, out |-> <<>>]

(* PrintSqsMixin.close: a buffer that holds records is closed and sent. *)
CloseSqs(self) ==
    IF self.num_messages > 0
    THEN [self |-> [self EXCEPT !.message_buffer = <<>>, !.num_messages = 0],
          out  |-> <<Append(self.message_buffer, Chr("]"))>>]
    ELSE [self |-> self, out |-> <<>>]

(* PrintKafkaMixin.close and PrintRabbitmqMixin.close, when the publish    *)
(* call returns                                                            *)
CloseKafka(self) == CloseSqs(self)

CloseRabbitmq(self) == CloseSqs(self)

(* PrintSqsBatchMixin.close *)
CloseSqsBatch(self) ==
    [self |-> [self EXCEPT !.messages = <<>>],
     out  |-> IF Len(self.messages) > 0 THEN <<Entries(self.messages)>> ELSE <<>>]

self_close(self) ==
    CASE write_thread = "Stdout"   -> CloseStdout(self)
      [] write_thread = "SqsBatch" -> CloseSqsBatch(self)
      [] write_thread = "Kafka"    -> CloseKafka(self)
      [] write_thread = "Rabbitmq" -> CloseRabbitmq(self)
      [] OTHER                     -> CloseSqs(self)

(* Mutant: after log_excessive_record the loop goes on to the counter      *)
(* instead of to the next record.                                          *)
WriterRead_CountsDropped(w) ==
    /\ writer[w].pc = "read"
    /\ read_queue # <<>>
    /\ LET message == Head(read_queue) IN
       /\ read_queue' = Tail(read_queue)
       /\ IF message = QUEUE_SENTINEL
          THEN /\ writer' = [writer EXCEPT ![w].pc = "sentinel"]
               /\ trace' = [trace EXCEPT !.sentinel_got[w] = @ + 1]
               /\ sent' = sent
          ELSE IF config.record_size_max > 0
                  /\ json_dumps_len(message) > config.record_size_max
          THEN /\ writer' = [writer EXCEPT ![w].pc = "load"]
               /\ trace' = [trace EXCEPT !.got[w] = Append(@, message.id),
                                         !.dropped_writer[w] = Append(@, message.id)]
               /\ sent' = sent
          ELSE LET p == self_print(writer[w], EvaluateDictToJson(message)) IN
               /\ writer' = [writer EXCEPT ![w] = [p.self EXCEPT !.pc = "poll"]]
               /\ sent' = [sent EXCEPT ![w] = @ \o p.out]
               /\ trace' = [trace EXCEPT !.got[w] = Append(@, message.id)]
    /\ UNCHANGED <<monitor, config, read_thread, write_thread, input_file, main, reader>>

(* Mutant: the sentinel is looked at and left on the queue. *)
WriterRead_LeavesSentinel(w) ==
    /\ writer[w].pc = "read"
    /\ read_queue # <<>>
    /\ LET message == Head(read_queue) IN
       /\ IF message = QUEUE_SENTINEL
          THEN /\ read_queue' = read_queue
               /\ writer' = [writer EXCEPT ![w].pc = "sentinel"]
               /\ trace' = [trace EXCEPT !.sentinel_got[w] = @ + 1]
               /\ sent' = sent
          ELSE IF config.record_size_max > 0
                  /\ json_dumps_len(message) > config.record_size_max
          THEN /\ read_queue' = Tail(read_queue)
               /\ writer' = writer
               /\ trace' = [trace EXCEPT !.got[w] = Append(@, message.id),
                                         !.dropped_writer[w] = Append(@, message.id)]
               /\ sent' = sent
          ELSE LET p == self_print(writer[w], EvaluateDictToJson(message)) IN
               /\ read_queue' = Tail(read_queue)
               /\ writer' = [writer EXCEPT ![w] = [p.self EXCEPT !.pc = "poll"]]
               /\ sent' = [sent EXCEPT ![w] = @ \o p.out]
               /\ trace' = [trace EXCEPT !.got[w] = Append(@, message.id)]
    /\ UNCHANGED <<monitor, config, read_thread, write_thread, input_file, main, reader>>

(* ReadQueueMixin.read and the body of run's loop: read_queue.get(); the    *)
(* sentinel ends the loop; a record goes through the size check and, when  *)
(* it passes, govern, evaluate and print up to the end of its publish      *)
(* call.  All but the get works on the thread's own message, buffer and    *)
(* sink client.                                                            *)
WriterRead(w) ==
    /\ writer[w].pc = "read"
    /\ read_queue # <<>>
    /\ LET message == Head(read_queue) IN
       /\ read_queue' = Tail(read_queue)
       /\ IF message = QUEUE_SENTINEL
          THEN /\ writer' = [writer EXCEPT ![w].pc = "sentinel"]
               /\ trace' = [trace EXCEPT !.sentinel_got[w] = @ + 1]
               /\ sent' = sent
          ELSE IF config.record_size_max > 0
                  /\ json_dumps_len(message) > config.record_size_max
          THEN /\ writer' = writer
               /\ trace' = [trace EXCEPT !.got[w] = Append(@, message.id),
                                         !.dropped_writer[w] = Append(@, message.id)]
               /\ sent' = sent
          ELSE LET p == self_print(writer[w], EvaluateDictToJson(message)) IN
               /\ writer' = [writer EXCEPT ![w] = [p.self EXCEPT !.pc = "poll"]]
               /\ sent' = [sent EXCEPT ![w] = @ \o p.out]
               /\ trace' = [trace EXCEPT !.got[w] = Append(@, message.id)]
    /\ UNCHANGED <<monitor, config, read_thread, write_thread, input_file, main, reader>>

(* Mutant: the sentinel is put back twice. *)
WriterSentinel_Twice(w) ==
    /\ writer[w].pc = "sentinel"
    /\ ~QueueFull(read_queue, config.read_queue_maxsize)
    /\ read_queue' = read_queue \o <<QUEUE_SENTINEL, QUEUE_SENTINEL>>
    /\ writer' = [writer EXCEPT ![w].pc = "close"]
    /\ UNCHANGED <<monitor, config, read_thread, write_thread, input_file, main, reader,
                   sent, trace>>

(* Mutant: the sentinel is not repeated for the next consumer. *)
WriterSentinel_NoRepeat(w) ==
    /\ writer[w].pc = "sentinel"
    /\ writer' = [writer EXCEPT ![w].pc = "close"]
    /\ UNCHANGED <<monitor, config, read_thread, write_thread, input_file, main, reader,
                   read_queue, sent, trace>>

(* ReadQueueMixin.read: read_queue.put(QUEUE_SENTINEL); break *)
WriterSentinel(w) ==
    /\ writer[w].pc = "sentinel"
    /\ ~QueueFull(read_queue, config.read_queue_maxsize)
    /\ read_queue' = Append(read_queue, QUEUE_SENTINEL)
    /\ writer' = [writer EXCEPT ![w].pc = "close"]
    /\ UNCHANGED <<monitor, config, read_thread, write_thread, input_file, main, reader,
                   sent, trace>>

(* The end of print.  PrintKafkaMixin.print reads the shared counter here, *)
(* after its publish call, and polls or not by the value it finds: other   *)
(* write threads may have counted records since this one took its record   *)
(* from the queue.  The print of every other sink returns.                 *)
WriterPoll(w) ==
    /\ writer[w].pc = "poll"
    /\ writer' = [writer EXCEPT
                     ![w].pc = "load",
                     ![w].unpolled = IF write_thread # "Kafka" THEN @
                                     ELSE IF KafkaPolls THEN 0 ELSE @ + 1]
    /\ UNCHANGED <<monitor, config, read_thread, write_thread, input_file, main, reader,
                   read_queue, sent, trace>>

(* run: self.config[self.counter_name] += 1 reads the counter ... *)
WriterLoad(w) ==
    /\ writer[w].pc = "load"
    /\ writer' = [writer EXCEPT ![w].pc = "store", ![w].loaded = config.output_counter]
    /\ UNCHANGED <<monitor, config, read_thread, write_thread, input_file, main, reader,
                   read_queue, sent, trace>>

(* ... and stores the value it read plus one. *)
WriterStore(w) ==
    /\ writer[w].pc = "store"
    /\ config' = [config EXCEPT !.output_counter = writer[w].loaded + 1]
    /\ writer' = [writer EXCEPT ![w].pc = "read", ![w].loaded = 0]
    /\ trace' = [trace EXCEPT !.increments = @ + 1]
    /\ UNCHANGED <<monitor, read_thread, write_thread, input_file, main, reader,
                   read_queue, sent>>

(* Mutant: close() waits until the queue is empty before it returns. *)
WriterClose_WaitsForEmptyQueue(w) ==
    /\ writer[w].pc = "close"
    /\ read_queue = <<>>
    /\ LET c == self_close(writer[w]) IN
       /\ writer' = [writer EXCEPT ![w] = [c.self EXCEPT !.pc = "done"]]
       /\ sent' = [sent EXCEPT ![w] = @ \o c.out]
    /\ trace' = [trace EXCEPT !.closed[w] = @ + 1]
    /\ UNCHANGED <<monitor, config, read_thread, write_thread, input_file, main, reader,
                   read_queue>>

(* run: self.close(), and the thread ends. *)
WriterClose(w) ==
    /\ writer[w].pc = "close"
    /\ LET c == self_close(writer[w]) IN
       /\ writer' = [writer EXCEPT ![w] = [c.self EXCEPT !.pc = "done"]]
       /\ sent' = [sent EXCEPT ![w] = @ \o c.out]
    /\ trace' = [trace EXCEPT !.closed[w] = @ + 1]
    /\ UNCHANGED <<monitor, config, read_thread, write_thread, input_file, main, reader,
                   read_queue>>

(***************************************************************************)
(* A publish call that raises.                                             *)
(***************************************************************************)
(* Mutant: an error in one write thread ends the other write threads too. *)
WriterPrintRaises_StopsAll(w) ==
    /\ writer[w].pc = "read"
    /\ write_thread # "Stdout"
    /\ read_queue # <<>>
    /\ Head(read_queue) # QUEUE_SENTINEL
    /\ writer[w].num_messages + 1 = config.records_per_message
    /\ read_queue' = Tail(read_queue)
    /\ writer' = [v \in Threads |->
                    IF writer[v].pc = "unstarted" THEN writer[v]
                    ELSE [writer[v] EXCEPT !.pc = "dead"]]
    /\ trace' = [trace EXCEPT !.got[w] = Append(@, Head(read_queue).id)]
    /\ UNCHANGED <<monitor, config, read_thread, write_thread, input_file, main,
                   reader, sent>>

(* The loop body of run, as in WriterRead, for a record whose print makes  *)
(* the publish call, and the call raises: an error print catches is        *)
(* logged and run goes on to the counter; any other ends the thread.       *)
WriterPrintRaises(w) ==
    /\ writer[w].pc = "read"
    /\ write_thread # "Stdout"
    /\ read_queue # <<>>
    /\ LET message == Head(read_queue) IN
       /\ message # QUEUE_SENTINEL
       /\ ~(config.record_size_max > 0
            /\ json_dumps_len(message) > config.record_size_max)
       /\ writer[w].num_messages + 1 = config.records_per_message
       /\ \E err \in Errors :
             LET p == self_print_raises(writer[w], EvaluateDictToJson(message), err) IN
             /\ writer' = [writer EXCEPT ![w] =
                              [p.self EXCEPT !.pc = IF p.caught THEN "poll" ELSE "dead"]]
             /\ trace' = [trace EXCEPT
                              !.got[w] = Append(@, message.id),
                              !.raised[w] = @ \o Ids(Records(p.self.message_buffer))]
       /\ read_queue' = Tail(read_queue)
    /\ UNCHANGED <<monitor, config, read_thread, write_thread, input_file, main,
                   reader, sent>>

(* close(), when its publish call raises: no close has a try. *)
WriterCloseRaises(w) ==
    /\ writer[w].pc = "close"
    /\ write_thread # "Stdout"
    /\ writer[w].num_messages > 0
    /\ writer' = [writer EXCEPT ![w].pc = "dead",
                                ![w].message_buffer = Append(@, Chr("]"))]
    /\ trace' = [trace EXCEPT
                     !.closed[w] = @ + 1,
                     !.raised[w] = @ \o Ids(Records(writer[w].message_buffer))]
    /\ UNCHANGED <<monitor, config, read_thread, write_thread, input_file, main,
                   reader, read_queue, sent>>

Next ==
    \/ StartReadThread
    \/ StartWriteThread
    \/ ReaderRead
    \/ ReaderPrint
    \/ ReaderCount
    \/ ReaderClose
    \/ \E w \in Threads : WriterRead(w)
    \/ \E w \in Threads : WriterSentinel(w)
    \/ \E w \in Threads : WriterPoll(w)
    \/ \E w \in Threads : WriterLoad(w)
    \/ \E w \in Threads : WriterStore(w)
    \/ \E w \in Threads : WriterClose(w)

Spec == Init /\ [][Next]_vars

(***************************************************************************)
(* Fair scheduling: the main thread, the read thread and every write       *)
(* thread each take their next step when it stays possible.  The runs are  *)
(* those of a JSON file with no size limit, where the read thread always   *)
(* reaches its close(): every queue size, thread count, sink, batch size   *)
(* and record window of Init is kept.                                      *)
(***************************************************************************)
MainStep == StartReadThread \/ StartWriteThread

ReaderStep == ReaderRead \/ ReaderPrint \/ ReaderCount \/ ReaderClose

WriterStep(w) ==
    \/ WriterRead(w)
    \/ WriterSentinel(w)
    \/ WriterPoll(w)
    \/ WriterLoad(w)
    \/ WriterStore(w)
    \/ WriterClose(w)

FairInit ==
    /\ Init
    /\ config.record_size_max = 0
    /\ read_thread = "FileJson"
    /\ \A i \in DOMAIN input_file : input_file[i].text = "object"

FairSpec ==
    /\ FairInit
    /\ [][Next]_vars
    /\ WF_vars(MainStep)
    /\ WF_vars(ReaderStep)
    /\ \A w \in Threads : WF_vars(WriterStep(w))

(***************************************************************************)
(* Fair scheduling in which the close() of the first write thread, with    *)
(* its last publish call and the flush or close of its client, may take    *)
(* for ever: the first write thread is only required to take the steps of  *)
(* its loop, every other thread all of its steps.                          *)
(***************************************************************************)
WriterLoopStep(w) ==
    \/ WriterRead(w)
    \/ WriterSentinel(w)
    \/ WriterPoll(w)
    \/ WriterLoad(w)
    \/ WriterStore(w)

FlushSpec ==
    /\ FairInit
    /\ [][Next]_vars
    /\ WF_vars(MainStep)
    /\ WF_vars(ReaderStep)
    /\ WF_vars(WriterLoopStep(1))
    /\ \A w \in Threads \ {1} : WF_vars(WriterStep(w))

(***************************************************************************)
(* The runs in which publish calls can raise: a JSON file of records, into *)
(* Kafka, RabbitMQ or SQS, with fair scheduling of the threads.  No step   *)
(* that raises is ever required to happen.                                 *)
(***************************************************************************)
FaultInit ==
    /\ read_thread = "FileJson"
    /\ write_thread \in {"Kafka", "Rabbitmq", "Sqs"}
    /\ config \in [read_queue_maxsize : {MaxQueue},
                   threads_per_print : 1..MaxThreads,
                   records_per_message : 1..2,
                   record_size_max : {0},
                   record_min : {0},
                   record_max : {0},
                   monitoring_period_in_seconds : {600},
                   kafka_poll_interval : {100},
                   default_data_source : {None},
                   default_entity_type : {None},
                   input_counter : {0},
                   output_counter : {0}]
    /\ input_file \in Inputs(read_thread, config.record_size_max)
    /\ \A i \in DOMAIN input_file : input_file[i].text = "object"
    /\ InitThreads

FaultNext ==
    \/ Next
    \/ \E w \in Threads : WriterPrintRaises(w)
    \/ \E w \in Threads : WriterCloseRaises(w)

FaultSpec ==
    /\ FaultInit
    /\ [][FaultNext]_vars
    /\ WF_vars(MainStep)
    /\ WF_vars(ReaderStep)
    /\ \A w \in Threads : WF_vars(WriterStep(w))

(***************************************************************************)
(* The runs that try the record window: every record_min and record_max up *)
(* to one more than the longest file, on files of records and, for a JSON  *)
(* file, blank lines; one write thread, stdout, no size limit.             *)
(***************************************************************************)
MaxLines == MaxRecords + 1

WindowInputs(kind) ==
    LET Line(i) == IF kind = "FileJson"
                   THEN {JsonLine(i, ShortLen, ShortLen), BlankLine(i)}
                   ELSE {CsvRow(i, ShortLen)}
    IN  UNION {{f \in [1..n -> UNION {Line(i) : i \in 1..n}] :
                    \A i \in 1..n : f[i].id = i} : n \in 0..MaxLines}

WindowInit ==
    /\ read_thread \in {"FileJson", "FileCsv"}
    /\ write_thread = "Stdout"
    /\ config \in [read_queue_maxsize : {0},
                   threads_per_print : {1},
                   records_per_message : {1},
                   record_size_max : {0},
                   record_min : 0..MaxLines,
                   record_max : 0..MaxLines,
                   monitoring_period_in_seconds : {600},
                   kafka_poll_interval : {100},
                   default_data_source : {None},
                   default_entity_type : {None},
                   input_counter : {0},
                   output_counter : {0}]
    /\ input_file \in WindowInputs(read_thread)
    /\ InitThreads

WindowSpec == WindowInit /\ [][Next]_vars

(***************************************************************************)
(* The runs that try the size limit together with the defaults of          *)
(* DATA_SOURCE and ENTITY_TYPE: a limit is set, one record goes into each  *)
(* message, each default is set or not, and a record has both keys or      *)
(* neither.                                                                *)
(***************************************************************************)
(* json.dumps("TEST") and json.dumps("GENERIC") *)
DataSourceTest == StrValue(6)
EntityTypeGeneric == StrValue(9)

SizeInputs(kind) ==
    LET Line(i) ==
            IF kind = "FileJson"
            THEN {WithKeys(JsonLine(i, n, d), ks) :
                     n \in Lengths, d \in Lengths, ks \in {{}, DefaultKeys}}
                 \ {WithKeys(JsonLine(i, LongLen, ShortLen), ks) : ks \in {{}, DefaultKeys}}
            ELSE {WithKeys(CsvRow(i, n), ks) : n \in Lengths, ks \in {{}, DefaultKeys}}
    IN  UNION {{f \in [1..n -> UNION {Line(i) : i \in 1..n}] :
                    \A i \in 1..n : f[i].id = i} : n \in 0..MaxRecords}

SizeInit ==
    /\ read_thread \in {"FileJson", "FileCsv"}
    /\ write_thread \in {"Stdout", "Sqs"}
    /\ config \in [read_queue_maxsize : {MaxQueue},
                   threads_per_print : 1..MaxThreads,
                   records_per_message : {1},
                   record_size_max : SizeLimits \ {0},
                   record_min : {0},
                   record_max : {0},
                   monitoring_period_in_seconds : {600},
                   kafka_poll_interval : {100},
                   default_data_source : {None, DataSourceTest},
                   default_entity_type : {None, EntityTypeGeneric},
                   input_counter : {0},
                   output_counter : {0}]
    /\ input_file \in SizeInputs(read_thread)
    /\ InitThreads

SizeSpec == SizeInit /\ [][Next]_vars

(***************************************************************************)
(* The governor.  Every thread calls self.govern() for a record that       *)
(* passed the size check, before evaluate and print.  The Governor of the  *)
(* program returns at once, and the actions above take the call and its    *)
(* return as part of the step that follows; a Governor loaded from         *)
(* senzing_governor may keep the thread waiting.  Here the call and its    *)
(* return are two steps: a thread at pc "govern" is inside govern().       *)
(***************************************************************************)
(* run in the read thread, up to the call of self.govern() *)
ReaderReadGovern ==
    /\ reader.pc = "read"
    /\ LET r == ReadFile_read(reader.counter)
           message == r.yield
       IN  IF message = None
           THEN /\ reader' = [pc |-> "close", counter |-> r.counter, message |-> None]
                /\ trace' = trace
           ELSE IF config.record_size_max > 0
                   /\ json_dumps_len(message) > config.record_size_max
           THEN IF message.type = "str"
                THEN /\ reader' = [pc |-> "dead", counter |-> r.counter, message |-> None]
                     /\ trace' = trace
                ELSE /\ reader' = [pc |-> "read", counter |-> r.counter, message |-> None]
                     /\ trace' = [trace EXCEPT !.dropped_reader = Append(@, message.id)]
           ELSE /\ reader' = [pc |-> "govern", counter |-> r.counter, message |-> message]
                /\ trace' = trace
    /\ UNCHANGED <<monitor, config, read_thread, write_thread, input_file, main, writer,
                   read_queue, sent>>

(* self.govern() returns in the read thread; self.evaluate(message) *)
ReaderGovernReturns ==
    /\ reader.pc = "govern"
    /\ IF read_thread = "FileJson" /\ reader.message.text = "garbage"
       THEN reader' = [reader EXCEPT !.pc = "dead", !.message = None]
       ELSE reader' = [reader EXCEPT !.pc = "print",
                                     !.message = ReaderEvaluate(reader.message)]
    /\ trace' = [trace EXCEPT !.governed_reader = Append(@, reader.message.id)]
    /\ UNCHANGED <<monitor, config, read_thread, write_thread, input_file, main, writer,
                   read_queue, sent>>

(* Mutant: the record is printed before self.govern() is called. *)
WriterReadGovern_PrintsFirst(w) ==
    /\ writer[w].pc = "read"
    /\ read_queue # <<>>
    /\ LET message == Head(read_queue) IN
       /\ read_queue' = Tail(read_queue)
       /\ IF message = QUEUE_SENTINEL
          THEN /\ writer' = [writer EXCEPT ![w].pc = "sentinel"]
               /\ trace' = [trace EXCEPT !.sentinel_got[w] = @ + 1]
               /\ sent' = sent
          ELSE IF config.record_size_max > 0
                  /\ json_dumps_len(message) > config.record_size_max
          THEN /\ writer' = writer
               /\ trace' = [trace EXCEPT !.got[w] = Append(@, message.id),
                                         !.dropped_writer[w] = Append(@, message.id)]
               /\ sent' = sent
          ELSE LET p == self_print(writer[w], EvaluateDictToJson(message)) IN
               /\ writer' = [writer EXCEPT ![w] = [p.self EXCEPT !.pc = "govern",
                                                                !.message = message]]
               /\ sent' = [sent EXCEPT ![w] = @ \o p.out]
               /\ trace' = [trace EXCEPT !.got[w] = Append(@, message.id)]
    /\ UNCHANGED <<monitor, config, read_thread, write_thread, input_file, main, reader>>

(* run in a write thread, up to the call of self.govern(): read_queue.get, *)
(* the sentinel, the size check                                            *)
WriterReadGovern(w) ==
    /\ writer[w].pc = "read"
    /\ read_queue # <<>>
    /\ LET message == Head(read_queue) IN
       /\ read_queue' = Tail(read_queue)
       /\ IF message = QUEUE_SENTINEL
          THEN /\ writer' = [writer EXCEPT ![w].pc = "sentinel"]
               /\ trace' = [trace EXCEPT !.sentinel_got[w] = @ + 1]
          ELSE IF config.record_size_max > 0
                  /\ json_dumps_len(message) > config.record_size_max
          THEN /\ writer' = writer
               /\ trace' = [trace EXCEPT !.got[w] = Append(@, message.id),
                                         !.dropped_writer[w] = Append(@, message.id)]
          ELSE /\ writer' = [writer EXCEPT ![w].pc = "govern", ![w].message = message]
               /\ trace' = [trace EXCEPT !.got[w] = Append(@, message.id)]
    /\ UNCHANGED <<monitor, config, read_thread, write_thread, input_file, main, reader,
                   sent>>

(* self.govern() returns in a write thread; self.print(self.evaluate(message)) *)
WriterGovernReturns(w) ==
    /\ writer[w].pc = "govern"
    /\ LET p == self_print(writer[w], EvaluateDictToJson(writer[w].message)) IN
       /\ writer' = [writer EXCEPT ![w] = [p.self EXCEPT !.pc = "poll",
                                                        !.message = None]]
       /\ sent' = [sent EXCEPT ![w] = @ \o p.out]
    /\ trace' = [trace EXCEPT !.governed[w] = Append(@, writer[w].message.id)]
    /\ UNCHANGED <<monitor, config, read_thread, write_thread, input_file, main, reader,
                   read_queue>>

(* A JSON file, with and without a size limit, into stdout or SQS. *)
GovernInit ==
    /\ read_thread = "FileJson"
    /\ write_thread \in {"Stdout", "Sqs"}
    /\ config \in [read_queue_maxsize : {MaxQueue},
                   threads_per_print : 1..MaxThreads,
                   records_per_message : 1..2,
                   record_size_max : SizeLimits,
                   record_min : {0},
                   record_max : {0},
                   monitoring_period_in_seconds : {600},
                   kafka_poll_interval : {100},
                   default_data_source : {None},
                   default_entity_type : {None},
                   input_counter : {0},
                   output_counter : {0}]
    /\ input_file \in Inputs(read_thread, config.record_size_max)
    /\ InitThreads

GovernNext ==
    \/ StartReadThread
    \/ StartWriteThread
    \/ ReaderReadGovern
    \/ ReaderGovernReturns
    \/ ReaderPrint
    \/ ReaderCount
    \/ ReaderClose
    \/ \E w \in Threads : WriterReadGovern(w)
    \/ \E w \in Threads : WriterGovernReturns(w)
    \/ \E w \in Threads : WriterSentinel(w)
    \/ \E w \in Threads : WriterPoll(w)
    \/ \E w \in Threads : WriterLoad(w)
    \/ \E w \in Threads : WriterStore(w)
    \/ \E w \in Threads : WriterClose(w)

GovernSpec == GovernInit /\ [][GovernNext]_vars

(***************************************************************************)
(* The runs that try the polling of Kafka: a JSON file of up to            *)
(* MaxPolled records into Kafka, one record per message, with a poll       *)
(* interval of one and of two records.                                     *)
(***************************************************************************)
MaxPolled == MaxRecords + 2

PollIntervals == {1, 2}

KafkaInit ==
    /\ read_thread = "FileJson"
    /\ write_thread = "Kafka"
    /\ config \in [read_queue_maxsize : {MaxQueue},
                   threads_per_print : 1..MaxThreads,
                   records_per_message : {1},
                   record_size_max : {0},
                   record_min : {0},
                   record_max : {0},
                   monitoring_period_in_seconds : {600},
                   kafka_poll_interval : PollIntervals,
                   default_data_source : {None},
                   default_entity_type : {None},
                   input_counter : {0},
                   output_counter : {0}]
    /\ input_file \in {[i \in 1..n |-> JsonLine(i, ShortLen, ShortLen)] : n \in 0..MaxPolled}
    /\ InitThreads

KafkaSpec == KafkaInit /\ [][Next]_vars

(***************************************************************************)
(* The websocket source.  ReadWebsocketMixin.read is `while True: record =  *)
(* self.local_queue.get(block=True); yield record`: it yields the messages *)
(* the clients have sent, in order, waits when there is none and never     *)
(* returns.  input_file is here the sequence of messages sent, and         *)
(* reader.counter the number of them taken.  The loop of run is that of    *)
(* the file sources, with EvaluateJsonToDictMixin.  The server's handler *)
(* puts messages into local_queue on the asyncio loop, which               *)
(* pipeline_read_write runs (run_forever) once every thread is started:    *)
(* no message is there to take before that, and main never gets to the     *)
(* joins.                                                                  *)
(***************************************************************************)
(* Mutant: read() returns when no message is waiting. *)
ReaderReadWebsocket_Eof ==
    /\ read_thread = "Websocket"
    /\ main > config.threads_per_print
    /\ reader.pc = "read"
    /\ IF reader.counter >= Len(input_file)
       THEN reader' = [reader EXCEPT !.pc = "close"]
       ELSE LET message == input_file[reader.counter + 1] IN
            IF \/ (config.record_size_max > 0
                      /\ json_dumps_len(message) > config.record_size_max)
               \/ message.text = "garbage"
            THEN reader' = [pc |-> "dead", counter |-> reader.counter + 1, message |-> None]
            ELSE reader' = [pc |-> "print", counter |-> reader.counter + 1,
                            message |-> EvaluateJsonToDict(message)]
    /\ UNCHANGED <<monitor, config, read_thread, write_thread, input_file, main, writer,
                   read_queue, sent, trace>>

(* run in the read thread of a websocket source, up to print: a message    *)
(* over the size limit ends the thread in log_excessive_record (a str has  *)
(* no get), one that is not JSON ends it in json.loads                     *)
ReaderReadWebsocket ==
    /\ read_thread = "Websocket"
    /\ main > config.threads_per_print
    /\ reader.pc = "read"
    /\ reader.counter < Len(input_file)
    /\ LET message == input_file[reader.counter + 1] IN
       IF \/ (config.record_size_max > 0
                 /\ json_dumps_len(message) > config.record_size_max)
          \/ message.text = "garbage"
       THEN reader' = [pc |-> "dead", counter |-> reader.counter + 1, message |-> None]
       ELSE reader' = [pc |-> "print", counter |-> reader.counter + 1,
                       message |-> EvaluateJsonToDict(message)]
    /\ UNCHANGED <<monitor, config, read_thread, write_thread, input_file, main, writer,
                   read_queue, sent, trace>>

(* A file of JSON lines or the same messages sent to the websocket. *)
WebsocketInit ==
    /\ read_thread \in {"FileJson", "Websocket"}
    /\ write_thread \in {"Stdout", "Sqs"}
    /\ config \in [read_queue_maxsize : {MaxQueue},
                   threads_per_print : 1..MaxThreads,
                   records_per_message : 1..2,
                   record_size_max : {0},
                   record_min : {0},
                   record_max : {0},
                   monitoring_period_in_seconds : {600},
                   kafka_poll_interval : {100},
                   default_data_source : {None},
                   default_entity_type : {None},
                   input_counter : {0},
                   output_counter : {0}]
    /\ input_file \in Inputs("FileJson", config.record_size_max)
    /\ InitThreads

WebsocketNext ==
    \/ StartReadThread
    \/ StartWriteThread
    \/ (read_thread # "Websocket" /\ ReaderRead)
    \/ ReaderReadWebsocket
    \/ ReaderPrint
    \/ ReaderCount
    \/ ReaderClose
    \/ \E w \in Threads : WriterRead(w)
    \/ \E w \in Threads : WriterSentinel(w)
    \/ \E w \in Threads : WriterPoll(w)
    \/ \E w \in Threads : WriterLoad(w)
    \/ \E w \in Threads : WriterStore(w)
    \/ \E w \in Threads : WriterClose(w)

WebsocketSpec == WebsocketInit /\ [][WebsocketNext]_vars

(***************************************************************************)
(* The runs of the SQS batch sink: with one write thread a JSON file of up *)
(* to one record more than a batch holds, with more write threads a file   *)
(* of up to MaxRecords records.                                            *)
(***************************************************************************)
MaxBatched == SqsBatchEntries + 1

SqsBatchInit ==
    /\ read_thread = "FileJson"
    /\ write_thread = "SqsBatch"
    /\ config \in [read_queue_maxsize : {1},
                   threads_per_print : 1..MaxThreads,
                   records_per_message : {1},
                   record_size_max : {0},
                   record_min : {0},
                   record_max : {0},
                   monitoring_period_in_seconds : {600},
                   kafka_poll_interval : {100},
                   default_data_source : {None},
                   default_entity_type : {None},
                   input_counter : {0},
                   output_counter : {0}]
    /\ input_file \in {[i \in 1..n |-> JsonLine(i, ShortLen, ShortLen)] : n \in 0..MaxBatched}
    /\ config.threads_per_print = 1 \/ Len(input_file) <= MaxRecords
    /\ InitThreads

SqsBatchSpec == SqsBatchInit /\ [][Next]_vars

(***************************************************************************)
(* MonitorThread.run.  pipeline_read_write starts the monitor after the    *)
(* write threads and joins it after them.  The monitor reads the counters  *)
(* and asks each worker whether it is alive; it changes nothing the other  *)
(* threads read.                                                           *)
(***************************************************************************)
(* threading.Thread.is_alive of a thread at pc *)
is_alive(pc) == pc \notin {"unstarted", "done", "dead"}

(* len(self.workers): the read thread and the write threads *)
LenWorkers == 1 + config.threads_per_print

(* the count the monitor's loop over self.workers arrives at *)
ActiveWorkers ==
    (IF is_alive(reader.pc) THEN 1 ELSE 0)
    + Cardinality({w \in 1..config.threads_per_print : is_alive(writer[w].pc)})

(* len(range(start, stop, step)) for a positive step *)
RangeLen(start, stop, step) ==
    IF stop <= start THEN 0 ELSE (stop - start + step - 1) \div step

(* time.sleep(interval_in_seconds) is called for seconds of this length *)
interval_in_seconds == 5

StartMonitorThread ==
    /\ main = config.threads_per_print + 1
    /\ main' = main + 1
    /\ monitor' = [monitor EXCEPT !.pc = "run"]
    /\ UNCHANGED <<config, read_thread, write_thread, input_file, reader, writer,
                   read_queue, sent, trace>>

(* the first count of the live workers, before the loop *)
MonitorRun ==
    /\ monitor.pc = "run"
    /\ monitor' = [pc |-> "while", active_workers |-> ActiveWorkers, step |-> 0]
    /\ UNCHANGED <<config, read_thread, write_thread, input_file, main, reader,
                   writer, read_queue, sent, trace>>

(* while active_workers > 0: active_workers = len(self.workers) *)
MonitorWhile ==
    /\ monitor.pc = "while"
    /\ monitor' = IF monitor.active_workers > 0
                  THEN [pc |-> "sleep", active_workers |-> LenWorkers, step |-> 0]
                  ELSE [monitor EXCEPT !.pc = "done"]
    /\ UNCHANGED <<config, read_thread, write_thread, input_file, main, reader,
                   writer, read_queue, sent, trace>>

(* one round of for step in range(1, sleep_time_in_seconds, 5): sleep,     *)
(* count the live workers, break when there is none; or the end of the for *)
MonitorSleep ==
    /\ monitor.pc = "sleep"
    /\ monitor' =
          IF monitor.step < RangeLen(1, config.monitoring_period_in_seconds,
                                     interval_in_seconds)
          THEN IF ActiveWorkers = 0
               THEN [monitor EXCEPT !.pc = "report", !.active_workers = 0]
               ELSE [monitor EXCEPT !.active_workers = ActiveWorkers, !.step = @ + 1]
          ELSE [monitor EXCEPT !.pc = "report"]
    /\ UNCHANGED <<config, read_thread, write_thread, input_file, main, reader,
                   writer, read_queue, sent, trace>>

(* the statistics: int(interval / sleep_time_in_seconds) raises            *)
(* ZeroDivisionError for a period of zero                                  *)
MonitorReport ==
    /\ monitor.pc = "report"
    /\ monitor' = IF config.monitoring_period_in_seconds = 0
                  THEN [monitor EXCEPT !.pc = "dead"]
                  ELSE [monitor EXCEPT !.pc = "while"]
    /\ UNCHANGED <<config, read_thread, write_thread, input_file, main, reader,
                   writer, read_queue, sent, trace>>

MonitorStep == MonitorRun \/ MonitorWhile \/ MonitorSleep \/ MonitorReport

(* The periods tried: none or one round of sleep, and two rounds. *)
Periods == {0, 1, 2, 7}

MonitorInit ==
    /\ read_thread = "FileJson"
    /\ write_thread = "Stdout"
    /\ config \in [read_queue_maxsize : {1, MaxQueue},
                   threads_per_print : 1..MaxThreads,
                   records_per_message : {1},
                   record_size_max : {0},
                   record_min : {0},
                   record_max : {0},
                   monitoring_period_in_seconds : Periods,
                   kafka_poll_interval : {100},
                   default_data_source : {None},
                   default_entity_type : {None},
                   input_counter : {0},
                   output_counter : {0}]
    /\ input_file \in Inputs(read_thread, config.record_size_max)
    /\ \A i \in DOMAIN input_file : input_file[i].text = "object"
    /\ InitThreads

MonitorNext == Next \/ StartMonitorThread \/ MonitorStep

MonitorSpec ==
    /\ MonitorInit
    /\ [][MonitorNext]_vars
    /\ WF_vars(MainStep \/ StartMonitorThread)
    /\ WF_vars(ReaderStep)
    /\ \A w \in Threads : WF_vars(WriterStep(w))
    /\ WF_vars(MonitorStep)

(***************************************************************************)
(* The runs in which write threads end with an error while the read thread *)
(* still has messages to put: SQS, whose publish calls may raise, a queue  *)
(* of one slot, files of up to MaxLines records, and the monitor.  pipeline_read_write joins the workers    *)
(* and then the monitor, and returns.                                      *)
(***************************************************************************)
MainJoin ==
    /\ main = config.threads_per_print + 2
    /\ ~is_alive(reader.pc)
    /\ \A w \in 1..config.threads_per_print : ~is_alive(writer[w].pc)
    /\ ~is_alive(monitor.pc)
    /\ main' = main + 1
    /\ UNCHANGED <<monitor, config, read_thread, write_thread, input_file, reader,
                   writer, read_queue, sent, trace>>

StallInit ==
    /\ read_thread = "FileJson"
    /\ write_thread = "Sqs"
    /\ config \in [read_queue_maxsize : {1},
                   threads_per_print : 1..MaxThreads,
                   records_per_message : 1..2,
                   record_size_max : {0},
                   record_min : {0},
                   record_max : {0},
                   monitoring_period_in_seconds : Periods,
                   kafka_poll_interval : {100},
                   default_data_source : {None},
                   default_entity_type : {None},
                   input_counter : {0},
                   output_counter : {0}]
    /\ input_file \in {[i \in 1..n |-> JsonLine(i, ShortLen, ShortLen)] : n \in 0..MaxLines}
    /\ InitThreads

StallNext == FaultNext \/ StartMonitorThread \/ MonitorStep \/ MainJoin

StallSpec ==
    /\ StallInit
    /\ [][StallNext]_vars
    /\ WF_vars(MainStep \/ StartMonitorThread \/ MainJoin)
    /\ WF_vars(ReaderStep)
    /\ \A w \in Threads : WF_vars(WriterStep(w))
    /\ WF_vars(MonitorStep)

(***************************************************************************)
(* Vocabulary of the properties.                                           *)
(***************************************************************************)
Workers == 1..config.threads_per_print

RECURSIVE Flatten(_)
Flatten(bodies) ==
    IF bodies = <<>> THEN <<>>
    ELSE Ids(Records(Head(bodies))) \o Flatten(Tail(bodies))

(* ids of the records in the bodies write thread w handed to its sink *)
Published(w) == Flatten(sent[w])

(* ids of the records waiting on the queue *)
Queued == Ids(SelectSeq(read_queue, LAMBDA m : m # QUEUE_SENTINEL))

Buffered(w) == Ids(Records(writer[w].message_buffer)) \o Ids(writer[w].messages)

(* f[1] + ... + f[n] *)
RECURSIVE SumTo(_, _)
SumTo(f, n) == IF n = 0 THEN 0 ELSE f[n] + SumTo(f, n - 1)

Range(seq) == {seq[i] : i \in DOMAIN seq}

NoDuplicates(seq) == Cardinality(Range(seq)) = Len(seq)

(* what has become of the records write thread w got: waiting in its       *)
(* buffer, handed to the sink, or dropped                                  *)
Whereabouts(w) == Buffered(w) \o Published(w) \o trace.dropped_writer[w]

AllExited == reader.pc = "done" /\ \A w \in Workers : writer[w].pc = "done"

(***************************************************************************)
(* The claims.                                                             *)
(***************************************************************************)

(* C1: no record is put twice; every record the read thread put is on the  *)
(* queue or was got by exactly one write thread, once; every record a      *)
(* write thread got is buffered, handed to the sink or dropped as too long *)
(* by that thread, exactly once in all; when all threads have exited no    *)
(* record is on the queue or in a buffer, so the published                 *)
(* bodies, flattened, and the dropped records are exactly the records put. *)
C1_ExactlyOnce ==
    /\ NoDuplicates(trace.put)
    /\ Range(trace.put) = Range(Queued) \cup UNION {Range(trace.got[w]) : w \in Threads}
    /\ Len(trace.put) = Len(Queued) + SumTo([w \in Threads |-> Len(trace.got[w])], MaxThreads)
    /\ \A w \in Threads :
          /\ Range(trace.got[w]) = Range(Whereabouts(w))
          /\ Len(trace.got[w]) = Len(Whereabouts(w))
    /\ AllExited =>
          /\ Queued = <<>>
          /\ \A w \in Threads : Buffered(w) = <<>>
          /\ Range(trace.put)
                = UNION {Range(Published(w) \o trace.dropped_writer[w]) : w \in Threads}
          /\ Len(trace.put)
                = SumTo([w \in Threads |-> Len(Published(w))
                                           + Len(trace.dropped_writer[w])], MaxThreads)

C1_Witness ==
    /\ AllExited
    /\ write_thread = "Sqs"
    /\ config.records_per_message = 2
    /\ config.threads_per_print = 2
    /\ Len(trace.put) = 2
    /\ Len(trace.dropped_writer[1]) = 1
    /\ Published(2) = <<2>>

(* C2: with no size limit and no record window, when all threads have      *)
(* exited output_counter is the number of input records, and the stdout    *)
(* sink has written that many lines.                                       *)
C2_OutputCounterIsN ==
    (/\ AllExited
     /\ config.record_size_max = 0
     /\ config.record_min = 0
     /\ config.record_max = 0)
    => /\ config.output_counter = Len(input_file)
       /\ write_thread = "Stdout"
             => SumTo([w \in Threads |-> Len(sent[w])], MaxThreads) = Len(input_file)

(* C3 as claimed: input_counter >= output_counter in every state. *)
C3_InputAtLeastOutput == config.input_counter >= config.output_counter

(* C3 as amended: output_counter is at most input_counter + 1, and at most *)
(* input_counter whenever the read thread is not between putting a record  *)
(* and counting it.                                                        *)
C3_OutputAtMostInputPlusOne ==
    /\ config.output_counter <= config.input_counter + 1
    /\ reader.pc # "count" => config.output_counter <= config.input_counter

C3_Witness ==
    /\ reader.pc = "count"
    /\ config.input_counter = 1
    /\ config.output_counter = 2

(* C4: when all threads have exited, input_counter - output_counter is the *)
(* number of records dropped for exceeding record_size_max.                *)
C4_DifferenceIsDropped ==
    AllExited =>
        config.input_counter - config.output_counter
            = Len(trace.dropped_reader)
              + SumTo([w \in Threads |-> Len(trace.dropped_writer[w])], MaxThreads)

(* C5: no increment of output_counter is lost: the counter is the number   *)
(* of increments the write threads have completed.                         *)
C5_NoIncrementLost == config.output_counter = trace.increments

(* C6 as claimed: the queue never holds more than read_queue_maxsize       *)
(* envelopes, whatever read_queue_maxsize is.                              *)
C6_QueueWithinMaxsize == Len(read_queue) <= config.read_queue_maxsize

(* C6 as amended: for read_queue_maxsize >= 1 the queue never holds more   *)
(* than read_queue_maxsize envelopes, records and sentinels together.      *)
C6_QueueWithinPositiveMaxsize ==
    config.read_queue_maxsize >= 1 => Len(read_queue) <= config.read_queue_maxsize

C6_Witness ==
    /\ config.read_queue_maxsize = 1
    /\ read_queue = <<QUEUE_SENTINEL>>
    /\ \E w \in Workers : writer[w].pc = "close"
    /\ \E w \in Workers : writer[w].pc = "read"
    /\ Len(trace.put) = 2

(* C7: once the read thread has put the sentinel, it puts no record. *)
C7_NoRecordAfterSentinel ==
    [][trace.sentinel_put > 0 => trace.put' = trace.put]_vars

C7_Witness ==
    /\ trace.sentinel_put = 1
    /\ Len(trace.put) = 2
    /\ \E w \in Workers : writer[w].pc = "done"
    /\ \E w \in Workers : writer[w].pc = "load"

(* C8: the read thread puts the sentinel exactly once, as its last step:   *)
(* none before it has finished reading, one when it has returned.          *)
C8_SentinelOnce ==
    /\ reader.pc = "done" => trace.sentinel_put = 1
    /\ reader.pc # "done" => trace.sentinel_put = 0

C8_Witness ==
    /\ reader.pc = "done"
    /\ config.record_max = 1
    /\ Len(input_file) = 2
    /\ trace.put = <<1>>

(* C9: no write thread gets the sentinel twice, and once the read thread   *)
(* has put the sentinel every write thread gets it.                        *)
C9_EveryWriterGetsSentinel ==
    /\ [](\A w \in Threads : trace.sentinel_got[w] <= 1)
    /\ (trace.sentinel_put = 1) ~> (\A w \in Workers : trace.sentinel_got[w] = 1)

C9_Witness ==
    /\ config.threads_per_print = 2
    /\ trace.sentinel_got = <<1, 1>>
    /\ Len(trace.got[1]) = 1
    /\ Len(trace.got[2]) = 1

(* C10: a write thread that got the sentinel calls close() once and exits, *)
(* and never calls close() more than once.                                 *)
C10_SentinelLeadsToExit ==
    /\ [](\A w \in Threads : trace.closed[w] <= 1)
    /\ \A w \in Threads :
          (trace.sentinel_got[w] = 1) ~> (writer[w].pc = "done" /\ trace.closed[w] = 1)

C10_Witness ==
    /\ config.read_queue_maxsize = 1
    /\ config.threads_per_print = 2
    /\ \A w \in Workers : writer[w].pc = "done" /\ trace.closed[w] = 1
    /\ write_thread = "Sqs"
    /\ Len(sent[2]) = 1

(* C11: with fair scheduling, a source that reaches the end of its input,  *)
(* a queue of at least one slot and at least one write thread, the read    *)
(* thread, every write thread and then the monitor all end.                *)
C11_PipelineStops ==
    <>(AllExited /\ monitor.pc \in {"done", "dead"})

(* C12: no state is reached in which the read thread has ended with an     *)
(* error, the queue is empty and every write thread waits in               *)
(* read_queue.get(): there no thread can take a step again, and the main   *)
(* thread waits in join() instead of exiting.                              *)
C12_NoDeadSourceWithBlockedWorkers ==
    ~(/\ reader.pc = "dead"
      /\ read_queue = <<>>
      /\ main = config.threads_per_print + 1
      /\ \A w \in Workers : writer[w].pc = "read"
      /\ ~ENABLED Next)

(* a JSON array of records: "[", records with "," between them, "]" *)
WellFormed(body) ==
    /\ Len(body) >= 3
    /\ Len(body) % 2 = 1
    /\ body[1] = Chr("[")
    /\ body[Len(body)] = Chr("]")
    /\ \A i \in 2..(Len(body) - 1) :
          IF i % 2 = 0 THEN body[i].type = "str" ELSE body[i] = Chr(",")

(* C13: a Kafka or RabbitMQ write thread whose publish call raised in      *)
(* print stays alive (a write thread ends with an error only in close())   *)
(* and goes on as before: every body it hands to the sink is a well-formed *)
(* array of at most records_per_message records, and between two records   *)
(* its buffer holds fewer than records_per_message records, so the records *)
(* it gets afterwards are published.                                       *)
C13_PublishFailureDropsOneMessage ==
    write_thread \in {"Kafka", "Rabbitmq"} =>
        \A w \in Threads :
            /\ writer[w].pc = "dead" => trace.closed[w] = 1
            /\ \A i \in DOMAIN sent[w] :
                  /\ WellFormed(sent[w][i])
                  /\ Len(Records(sent[w][i])) <= config.records_per_message
            /\ writer[w].pc = "read"
                  => writer[w].num_messages < config.records_per_message

(* every write thread has ended, with an error or without *)
AllWritersEnded == \A w \in Workers : writer[w].pc \in {"done", "dead"}

(* C14: a write thread that ends with an error changes no other thread:    *)
(* the step leaves the read thread and every other write thread as they    *)
(* were and takes nothing off the queue but its own record.  Unless every  *)
(* write thread ends with an error, in the end the read thread has         *)
(* returned, no record is left on the queue, and every write thread that   *)
(* did not fail in print has got the sentinel.                             *)
C14_SurvivorsFinish ==
    /\ [][\A w \in Threads :
            (writer[w].pc # "dead" /\ writer'[w].pc = "dead") =>
                /\ \A v \in Threads \ {w} : writer'[v] = writer[v]
                /\ reader' = reader
                /\ Len(read_queue') >= Len(read_queue) - 1]_vars
    /\ <>(\/ \A w \in Workers : writer[w].pc = "dead"
          \/ /\ reader.pc = "done"
             /\ AllWritersEnded
             /\ Queued = <<>>
             /\ \A w \in Workers :
                   writer[w].pc = "done" => trace.sentinel_got[w] = 1)

C14_Witness ==
    /\ write_thread = "Sqs"
    /\ config.threads_per_print = 2
    /\ reader.pc = "done"
    /\ writer[1].pc = "dead"
    /\ trace.sentinel_got[1] = 0
    /\ trace.raised[1] = <<1>>
    /\ writer[2].pc = "done"
    /\ trace.sentinel_got[2] = 1
    /\ Published(2) = <<2>>

(* the records of a file: its rows, or its lines that are not blank *)
RecordsOf(file) ==
    SelectSeq(file, LAMBDA l : ~(l.type = "str" /\ l.text = "blank"))

Min(x, y) == IF x <= y THEN x ELSE y

Max(x, y) == IF x >= y THEN x ELSE y

(* the records with ordinal a..b of a sequence of records *)
Window(recs, a, b) ==
    IF a > Min(b, Len(recs)) THEN <<>> ELSE SubSeq(recs, a, Min(b, Len(recs)))

(* C15: with record_min = a and record_max = b set, when the read thread   *)
(* has returned it has put exactly the records with ordinal a..b, in the   *)
(* order of the file.                                                      *)
C15_WindowIsInclusive ==
    (reader.pc = "done" /\ config.record_min # 0 /\ config.record_max # 0)
    => trace.put = Ids(Window(RecordsOf(input_file),
                              config.record_min, config.record_max))

(* C16: with record_min = a and record_max = b set and N records in the    *)
(* file, when the read thread has returned it has put                      *)
(* min(max(0, b - a + 1), N - (a - 1)) records.                            *)
C16_WindowCount ==
    (reader.pc = "done" /\ config.record_min # 0 /\ config.record_max # 0)
    => Len(trace.put)
         = Min(Max(0, config.record_max - config.record_min + 1),
               Len(RecordsOf(input_file)) - (config.record_min - 1))

(* len(body): the lengths of its records and one for each other character *)
RECURSIVE BodyLen(_)
BodyLen(body) ==
    IF body = <<>> THEN 0 ELSE Head(body).len + BodyLen(Tail(body))

(* len(json.dumps(record)) for the record of a line or a row *)
SerializedLen(l) == IF l.type = "str" THEN l.dictlen ELSE l.len

(* the records of the file that are longer than the limit *)
TooLong ==
    {i \in DOMAIN input_file :
        SerializedLen(input_file[i]) > config.record_size_max}

(* C17: with a size limit and one record per message, no body handed to a  *)
(* sink is longer than the limit, and when all threads have exited the     *)
(* records dropped are as many as the records longer than the limit.       *)
C17_NoBodyOverLimit ==
    (config.record_size_max > 0 /\ config.records_per_message = 1) =>
        /\ \A w \in Threads : \A i \in DOMAIN sent[w] :
              BodyLen(sent[w][i]) <= config.record_size_max
        /\ AllExited =>
              Len(trace.dropped_reader)
              + SumTo([w \in Threads |-> Len(trace.dropped_writer[w])], MaxThreads)
                 = Cardinality(TooLong)

(* C18: the step in which a write thread drops a record as too long hands  *)
(* nothing to the sink, leaves the counters, the thread's buffer and its   *)
(* count of buffered records as they were, and leaves the thread at the    *)
(* top of its loop, about to get the next message.                         *)
C18_DropLeavesWriterUnchanged ==
    [][\A w \in Threads :
          trace'.dropped_writer[w] # trace.dropped_writer[w] =>
              /\ sent' = sent
              /\ config' = config
              /\ writer'[w] = writer[w]
              /\ writer'[w].pc = "read"]_vars

C18_Witness ==
    /\ write_thread = "Sqs"
    /\ config.records_per_message = 2
    /\ \E w \in Workers :
          /\ trace.got[w] = <<1, 2>>
          /\ trace.dropped_writer[w] = <<2>>
          /\ Buffered(w) = <<1>>
          /\ writer[w].pc = "read"
          /\ sent[w] = <<>>
    /\ config.output_counter = 1

(* the lines of the file whose record is within the limit *)
NotTooLong == DOMAIN input_file \ TooLong

(* C19: a JSON file of one record within the limit and one over it, to     *)
(* stdout: the read thread does not end with an error, and when all        *)
(* threads have exited one line was written and one warning logged, for    *)
(* the record over the limit.                                              *)
C19_OneLineOneWarning ==
    (/\ read_thread = "FileJson"
     /\ write_thread = "Stdout"
     /\ config.record_size_max > 0
     /\ config.record_min = 0
     /\ config.record_max = 0
     /\ Cardinality(TooLong) = 1
     /\ Cardinality(NotTooLong) = 1)
    => /\ reader.pc # "dead"
       /\ AllExited =>
             /\ SumTo([w \in Threads |-> Len(sent[w])], MaxThreads) = 1
             /\ Range(trace.dropped_reader)
                  \cup UNION {Range(trace.dropped_writer[w]) : w \in Threads} = TooLong

(* C20: with records_per_message = 1 every body handed to Kafka, RabbitMQ  *)
(* or SQS is the serialised record and nothing else.                       *)
C20_SingleObjectPayload ==
    (config.records_per_message = 1 /\ write_thread \in {"Kafka", "Rabbitmq", "Sqs"}) =>
        \A w \in Threads : \A i \in DOMAIN sent[w] :
            /\ Len(sent[w][i]) = 1
            /\ sent[w][i][1].type = "str"

(* C21: with records_per_message = K > 1 every body handed to Kafka,       *)
(* RabbitMQ or SQS is a closed JSON array of 1..K records; a body of fewer *)
(* than K records is the last one of its write thread, handed over by      *)
(* close(); and a write thread that has ended holds no record in its       *)
(* buffer.                                                                 *)
C21_BatchesAreClosedArrays ==
    (config.records_per_message > 1 /\ write_thread \in {"Kafka", "Rabbitmq", "Sqs"}) =>
        \A w \in Threads :
            /\ \A i \in DOMAIN sent[w] :
                  /\ WellFormed(sent[w][i])
                  /\ Len(Records(sent[w][i])) \in 1..config.records_per_message
                  /\ Len(Records(sent[w][i])) < config.records_per_message
                        => (i = Len(sent[w]) /\ trace.closed[w] = 1)
            /\ writer[w].pc \in {"done", "dead"} => Buffered(w) = <<>>

(* C22: stdout batches like the other sinks: with one write thread and     *)
(* records_per_message = K > 1, when all threads have exited the n records *)
(* written stand on ceil(n / K) lines (three records with K = 2 on two     *)
(* lines).                                                                 *)
C22_StdoutBatches ==
    (/\ write_thread = "Stdout"
     /\ config.records_per_message > 1
     /\ config.threads_per_print = 1
     /\ AllExited)
    => Len(sent[1]) = (Len(Published(1)) + config.records_per_message - 1)
                        \div config.records_per_message

(* the records a write thread has handed to its sink or holds in its buffer *)
Printed(w) == Published(w) \o Buffered(w)

(* C23: self.govern() has returned for every record a write thread has     *)
(* printed; and a step that leaves a write thread inside govern() hands    *)
(* nothing of that thread to the sink, leaves its buffer as it was, and    *)
(* changes output_counter only when another write thread stores it.        *)
C23_GovernBeforePublish ==
    /\ [](\A w \in Threads : Range(Printed(w)) \subseteq Range(trace.governed[w]))
    /\ [][\A w \in Threads :
            (writer[w].pc = "govern" /\ writer'[w].pc = "govern") =>
                /\ sent'[w] = sent[w]
                /\ writer'[w] = writer[w]
                /\ config'.output_counter # config.output_counter =>
                      \E v \in Threads \ {w} :
                          writer[v].pc = "store" /\ writer'[v].pc = "read"]_vars

C23_Witness ==
    /\ config.threads_per_print = 2
    /\ writer[1].pc = "govern"
    /\ writer[1].message.id = 1
    /\ trace.governed[2] = <<2>>
    /\ Published(2) = <<2>>
    /\ config.output_counter = 1
    /\ Printed(1) = <<>>

(* every worker was started and none is alive *)
NoLiveWorker ==
    /\ main > config.threads_per_print
    /\ ~is_alive(reader.pc)
    /\ \A w \in Workers : ~is_alive(writer[w].pc)

(* C24: for every monitoring period, once every worker has ended the       *)
(* monitor sees that no worker is alive, leaves its loop and returns.      *)
C24_MonitorEndsAfterWorkers == NoLiveWorker ~> (monitor.pc = "done")

(* C25: for every monitoring period, 0 included, the monitor does not end  *)
(* with an exception.                                                      *)
C25_MonitorNeverRaises == monitor.pc # "dead"

(* a write thread is about to put the sentinel back and the queue is full *)
SentinelRepeatBlocked ==
    \E w \in Threads :
        /\ writer[w].pc = "sentinel"
        /\ QueueFull(read_queue, config.read_queue_maxsize)

(* C26 as claimed: the run comes to a state in which a write thread that   *)
(* holds the sentinel finds the queue full, and waits in put().            *)
C26_RepeatFindsQueueFull == <>SentinelRepeatBlocked

(* C26: a write thread that holds the sentinel never finds the queue full: *)
(* it took the sentinel off the queue itself, the read thread puts nothing *)
(* after the sentinel, and no other write thread can put one before it     *)
(* has got this one.  The queue is empty when the sentinel is put back.    *)
C26_RepeatNeverBlocks ==
    \A w \in Threads :
        writer[w].pc = "sentinel" =>
            /\ ~QueueFull(read_queue, config.read_queue_maxsize)
            /\ read_queue = <<>>

C26_Witness ==
    /\ config.read_queue_maxsize = 1
    /\ config.threads_per_print = 2
    /\ writer[1].pc = "done"
    /\ writer[2].pc = "sentinel"
    /\ trace.sentinel_got = <<1, 1>>
    /\ Len(trace.put) = MaxRecords
    /\ ENABLED WriterSentinel(2)

(* C27: a write thread calls govern() for every record it gets, before the *)
(* size check: outside govern() the records its govern() returned for are  *)
(* the records it got, those it dropped as too long included.              *)
C27_GovernForEveryRecord ==
    \A w \in Threads :
        /\ Range(trace.dropped_writer[w]) \subseteq Range(trace.governed[w])
        /\ writer[w].pc # "govern" => trace.governed[w] = trace.got[w]

(* C28: in a JSON file the window counts records, not lines: when the read *)
(* thread has returned it has put the records whose ordinal among the      *)
(* records of the file is within the window, whatever blank lines stand    *)
(* between them (a bound that is not set does not limit).                  *)
C28_BlankLinesNotCounted ==
    (read_thread = "FileJson" /\ reader.pc = "done") =>
        LET recs == RecordsOf(input_file)
            a == IF config.record_min = 0 THEN 1 ELSE config.record_min
            b == IF config.record_max = 0 THEN Len(recs) ELSE config.record_max
        IN  trace.put = Ids(Window(recs, a, b))

(* the records of the file that are within the record window *)
Windowed ==
    LET recs == RecordsOf(input_file)
        a == IF config.record_min = 0 THEN 1 ELSE config.record_min
        b == IF config.record_max = 0 THEN Len(recs) ELSE config.record_max
    IN  Window(recs, a, b)

(* C29: when the read thread has returned, it has put and counted every    *)
(* record within the window whatever its size: input_counter is the number *)
(* of those records and the read thread has dropped none as too long.      *)
C29_SourceCountsEveryWindowedRecord ==
    reader.pc = "done" =>
        /\ config.input_counter = Len(Windowed)
        /\ trace.put = Ids(Windowed)
        /\ trace.dropped_reader = <<>>

(* a is b with some of its elements left out *)
RECURSIVE IsSubseq(_, _)
IsSubseq(a, b) ==
    IF a = <<>> THEN TRUE
    ELSE IF b = <<>> THEN FALSE
    ELSE IF Head(a) = Head(b) THEN IsSubseq(Tail(a), Tail(b))
    ELSE IsSubseq(a, Tail(b))

(* the records of seq that are not in the set ids *)
Without(seq, ids) == SelectSeq(seq, LAMBDA i : i \notin ids)

(* C30: records leave the queue in the order they were put: what a write   *)
(* thread has got is, in order, part of what the read thread has put,      *)
(* which is in the order of the file; and with one write thread the        *)
(* records it got are the first ones put, and the records it has printed   *)
(* are those in the same order, less the ones dropped as too long.         *)
C30_QueueIsFifo ==
    /\ IsSubseq(trace.put, Ids(input_file))
    /\ \A w \in Threads : IsSubseq(trace.got[w], trace.put)
    /\ config.threads_per_print = 1 =>
          /\ trace.got[1] = SubSeq(trace.put, 1, Len(trace.got[1]))
          /\ Printed(1) = Without(trace.got[1], Range(trace.dropped_writer[1]))

C30_Witness ==
    /\ config.threads_per_print = 1
    /\ config.read_queue_maxsize = MaxQueue
    /\ trace.put = <<1, 2>>
    /\ writer[1].pc = "done"
    /\ Published(1) = <<1, 2>>

(* C31: what a write thread has handed to its sink and holds in its buffer *)
(* is, in order and with none left out, what that thread got from the      *)
(* queue and did not drop; and a step that changes the buffer of a write   *)
(* thread, or hands a body to its sink, is a step of that thread in print  *)
(* or close and leaves every other write thread as it was.                 *)
C31_BatchIsOwnRecordsInOrder ==
    /\ [](\A w \in Threads :
            Printed(w) = Without(trace.got[w], Range(trace.dropped_writer[w])))
    /\ [][\A w \in Threads :
            (writer'[w].message_buffer # writer[w].message_buffer \/ sent'[w] # sent[w]) =>
                /\ writer[w].pc \in {"read", "close"}
                /\ \A v \in Threads \ {w} : writer'[v] = writer[v] /\ sent'[v] = sent[v]]_vars

C31_Witness ==
    /\ write_thread = "Sqs"
    /\ config.records_per_message = 2
    /\ config.threads_per_print = 2
    /\ Buffered(1) = <<2>>
    /\ Buffered(2) = <<1>>
    /\ writer[1].pc = "close"
    /\ writer[2].pc = "read"

(* C32: a Kafka write thread calls poll(0) at least once in every          *)
(* kafka_poll_interval records it prints, one after the other: it never    *)
(* has printed that many records since its last call.                      *)
C32_KafkaPollsEveryInterval ==
    write_thread = "Kafka" =>
        \A w \in Threads : writer[w].unpolled < config.kafka_poll_interval

(* C33: every send_message_batch call of the SQS batch sink carries 1 to   *)
(* 10 entries with ids that differ from one another, and a write thread    *)
(* that has returned has sent every record it got in exactly one call.     *)
C33_SqsBatchCalls ==
    write_thread = "SqsBatch" =>
        \A w \in Threads :
            /\ \A c \in DOMAIN sent[w] :
                  /\ Len(sent[w][c]) \in 1..SqsBatchEntries
                  /\ \A i, j \in DOMAIN sent[w][c] :
                        i # j => sent[w][c][i].Id # sent[w][c][j].Id
            /\ writer[w].pc = "done" =>
                  /\ Published(w) = trace.got[w]
                  /\ NoDuplicates(Published(w))

C33_Witness ==
    /\ write_thread = "SqsBatch"
    /\ config.threads_per_print = 1
    /\ writer[1].pc = "done"
    /\ Len(sent[1]) = 2
    /\ Len(sent[1][1]) = SqsBatchEntries
    /\ Len(sent[1][2]) = 1

(* the records write thread w has handed to its sink or holds in its       *)
(* buffer that were in no publish call that raised                         *)
Accepted(w) == Range(Printed(w)) \ Range(trace.raised[w])

(* C34: output_counter counts no record whose publish call raised: it is   *)
(* never more than the number of records handed to a sink or held in a     *)
(* buffer that were in no call that raised.                                *)
C34_CounterCountsAccepted ==
    config.output_counter
        <= SumTo([w \in Threads |-> Cardinality(Accepted(w))], MaxThreads)

(* the sentinels on the queue and in the hands of write threads that have  *)
(* got one and not yet put it back                                         *)
Sentinels ==
    Len(SelectSeq(read_queue, LAMBDA m : m = QUEUE_SENTINEL))
    + Cardinality({w \in Threads : writer[w].pc = "sentinel"})

(* C35: before the read thread puts the sentinel there is none; from then  *)
(* on there is exactly one, on the queue or with one write thread between  *)
(* its get and its put; on the queue it is the last message; and when      *)
(* every write thread has returned the queue holds the sentinel and        *)
(* nothing else.                                                           *)
C35_OneSentinel ==
    /\ Sentinels = trace.sentinel_put
    /\ trace.sentinel_put \in {0, 1}
    /\ \A i \in DOMAIN read_queue :
          read_queue[i] = QUEUE_SENTINEL => i = Len(read_queue)
    /\ (main > config.threads_per_print /\ \A w \in Workers : writer[w].pc = "done")
          => read_queue = <<QUEUE_SENTINEL>>

C35_Witness ==
    /\ config.threads_per_print = 2
    /\ config.read_queue_maxsize = 1
    /\ \A w \in Workers : writer[w].pc = "done"
    /\ trace.sentinel_got = <<1, 1>>
    /\ Len(trace.put) = MaxRecords
    /\ read_queue = <<QUEUE_SENTINEL>>

(* C36: govern() is called once for each record that is printed, and by    *)
(* the write threads only: the read thread is never inside govern() and    *)
(* its govern() has returned for no record.                                *)
C36_OnlyWritersGovern ==
    /\ reader.pc # "govern"
    /\ trace.governed_reader = <<>>
    /\ \A w \in Threads :
          /\ NoDuplicates(trace.governed[w])
          /\ Range(Printed(w)) \subseteq Range(trace.governed[w])

(* C37: when print of the Kafka, RabbitMQ or SQS sink has returned, the    *)
(* write thread counts fewer than records_per_message records in its       *)
(* buffer, also after a publish call that raised; with one record per      *)
(* message the buffer then holds no record.                                *)
C37_BufferBelowBatchSize ==
    write_thread \in {"Kafka", "Rabbitmq", "Sqs"} =>
        \A w \in Threads :
            writer[w].pc # "dead" =>
                /\ writer[w].num_messages \in 0..(config.records_per_message - 1)
                /\ config.records_per_message = 1 => Buffered(w) = <<>>

(* C38: a write thread calls close() only after it has put the sentinel    *)
(* back; so also when the close() of the first write thread never returns, *)
(* the first write thread comes to its close() and every other write       *)
(* thread gets the sentinel and returns.                                   *)
C38_SentinelBackBeforeClose ==
    /\ [][\A w \in Threads :
            trace'.closed[w] # trace.closed[w] =>
                /\ writer[w].pc = "close"
                /\ trace.sentinel_got[w] = 1
                /\ Sentinels = 1]_vars
    /\ <>(writer[1].pc \in {"close", "done"})
    /\ <>(\A w \in Workers \ {1} : writer[w].pc = "done")

C38_Witness ==
    /\ write_thread = "Sqs"
    /\ config.records_per_message = 2
    /\ config.threads_per_print = 2
    /\ writer[1].pc = "close"
    /\ Buffered(1) = <<1>>
    /\ writer[2].pc = "done"
    /\ trace.sentinel_got = <<1, 1>>
    /\ Published(2) = <<2>>

(* every write thread has ended with an error *)
AllWorkersDead == \A w \in Workers : writer[w].pc = "dead"

(* the read thread waits in put() on a full queue that no write thread     *)
(* will take from                                                          *)
Stalled ==
    /\ main > config.threads_per_print
    /\ AllWorkersDead
    /\ reader.pc \in {"print", "close"}
    /\ QueueFull(read_queue, config.read_queue_maxsize)

(* C39: the read thread drops no record on a full queue: it keeps the      *)
(* record until it is put, so the records put are the first records of the *)
(* file and, when it has returned, all of them.  With fair scheduling a    *)
(* put that waits is done unless every write thread has ended with an      *)
(* error.  When every write thread has ended with an error and the read    *)
(* thread waits on a full queue, it waits for ever: the monitor thread     *)
(* does not end, neither by leaving its loop nor with an exception, and    *)
(* pipeline_read_write does not return.                                    *)
C39_PutBlocksAndCompletes ==
    /\ [](/\ trace.put = SubSeq(Ids(input_file), 1, Len(trace.put))
          /\ reader.pc = "print" => reader.message.id = Len(trace.put) + 1
          /\ reader.pc = "done" => trace.put = Ids(input_file))
    /\ \A n \in 0..MaxLines :
          (reader.pc = "print" /\ Len(trace.put) = n)
              ~> (Len(trace.put) > n \/ AllWorkersDead)
    /\ [][Stalled => Stalled']_vars
    /\ [](Stalled => (/\ monitor.pc \notin {"done", "dead"}
                       /\ main <= config.threads_per_print + 2))

(* C40: with the websocket source the read thread never reaches close()    *)
(* and puts no sentinel; no write thread gets one, calls close() or        *)
(* returns, and what a write thread has handed to its sink are full        *)
(* batches only.                                                           *)
C40_WebsocketNeverEnds ==
    read_thread = "Websocket" =>
        /\ reader.pc \notin {"close", "done"}
        /\ trace.sentinel_put = 0
        /\ \A w \in Threads :
              /\ writer[w].pc \notin {"sentinel", "close", "done"}
              /\ trace.sentinel_got[w] = 0
              /\ trace.closed[w] = 0
              /\ \A i \in DOMAIN sent[w] :
                    Len(Records(sent[w][i])) = IF write_thread = "Sqs"
                                               THEN config.records_per_message ELSE 1

(* every message sent was taken and printed, no thread can take a step,    *)
(* and a record is left in the buffer of a write thread                    *)
C40_Witness ==
    /\ read_thread = "Websocket"
    /\ write_thread = "Sqs"
    /\ config.records_per_message = 2
    /\ config.threads_per_print = 2
    /\ reader.pc = "read"
    /\ reader.counter = Len(input_file)
    /\ Buffered(1) = <<1>>
    /\ Buffered(2) = <<2>>
    /\ \A w \in Workers : writer[w].pc = "read" /\ sent[w] = <<>>
    /\ ~ENABLED WebsocketNext
====
